---- MODULE Spec2Model ----
(***************************************************************************)
(* Project Lantern media server (src/main.py): the transcode session       *)
(* registry active_processes with the handlers that touch it               *)
(* (start_stream, stop_stream, run_ffmpeg_sync, the shutdown part of       *)
(* lifespan), the segment waiter wait_for_ready behind HLSStaticFiles, the *)
(* manifest generator and the direct-play decision.                        *)
(*                                                                         *)
(* Scheduling, as the server runs it:                                      *)
(*  - start_stream is an "async def" without a single await, and the       *)
(*    shutdown part of lifespan runs on the same event loop: the two are   *)
(*    mutually exclusive (variable loop), but both interleave, statement   *)
(*    by statement, with the threads below;                                *)
(*  - stop_stream is a plain "def": FastAPI runs it on a worker thread;    *)
(*  - run_ffmpeg_sync runs on a thread of its own (asyncio.to_thread), one *)
(*    per transcode session;                                               *)
(*  - ffmpeg is a child process that runs, writes segments and exits on    *)
(*    its own schedule.                                                    *)
(***************************************************************************)
EXTENDS Integers, Sequences, FiniteSets

VARIABLES
    active_processes, \* main.py:42   the registry, an insertion-ordered dict
    proc,             \* per session: state of the ffmpeg child it launched
    dirs,             \* the session output directories that exist on disk
    first,            \* the sessions whose first segment file is complete on disk
    thread,           \* per session: position of its run_ffmpeg_sync thread
    nsess,            \* number of session ids handed out so far
    loop,             \* the start_stream call the event loop is running, with its response
    stop,             \* the stop_stream call a worker thread is running
    sweep,            \* the shutdown part of lifespan
    wfr,              \* one .ts request: HLSStaticFiles + wait_for_ready
    fn                \* inputs and result of a pure function under check

vars == <<active_processes, proc, dirs, first, thread, nsess, loop, stop, sweep, wfr, fn>>

(***************************************************************************)
(* Bounds of the model.                                                    *)
(***************************************************************************)
\* transcode sessions (session ids) created in one run
MaxSessions == 2

\* movie_id values of the requests; a movie and an episode may share one
MovieIds == {1, 2}

Sessions == 1..MaxSessions

\* Python's None for a process handle; the process of session s is named s
None == 0

(***************************************************************************)
(* active_processes: a Python dict keeps its keys in insertion order, so   *)
(* it is a sequence of items [key, process, dir].  The directory of        *)
(* session s (static/hls/<movie_id>/<session_id>) is named s.              *)
(***************************************************************************)
Keys(d) == {d[i].key : i \in 1..Len(d)}

HasKey(d, k) == k \in Keys(d)

Item(d, k) == d[CHOOSE i \in 1..Len(d) : d[i].key = k]

RECURSIVE Without(_, _)
Without(d, k) == IF d = <<>> THEN <<>> ELSE IF Head(d).key = k THEN Tail(d) ELSE <<Head(d)>> \o Without(Tail(d), k)

\* d[k] = {"process": p, "dir": dir}: an existing key keeps its position
Put(d, k, p, dir) ==
    IF HasKey(d, k)
    THEN [i \in 1..Len(d) |-> IF d[i].key = k THEN [key |-> k, process |-> p, dir |-> dir] ELSE d[i]]
    ELSE Append(d, [key |-> k, process |-> p, dir |-> dir])

NoInfo == [key |-> 0, process |-> None, dir |-> 0]

NoResp == [status |-> 0, mode |-> "none"]

IdleLoop == [pc |-> "idle", movie_id |-> 0, proc_info |-> NoInfo, sid |-> 0, resp |-> NoResp]

IdleStop == [pc |-> "idle", movie_id |-> 0, proc_info |-> NoInfo, status |-> 0]

NoThread == [pc |-> "none", movie_id |-> 0]

(***************************************************************************)
(* Direct-play decision: probe_media_file, can_direct_play and the part of *)
(* start_stream between the database lookup and the session creation.      *)
(***************************************************************************)
\* os.path.splitext(path)[1] of the files in the library
Extensions == {".mp4", ".MP4", ".m4v", ".webm", ".mkv", ".mov"}

\* str.lower() on the extensions above
Lower(ext) == IF ext = ".MP4" THEN ".mp4" ELSE ext

\* the containers of main.py:294, which can_direct_play does not use
DIRECT_PLAY_EXTS == {".mp4", ".m4v", ".mov", ".webm", ".ogv"}

\* main.py:325, the literal set in can_direct_play (DIRECT_PLAY_EXTS of line 294 is not used)
DirectPlayContainers == {".mp4", ".m4v", ".webm"}

SAFE_VIDEO_CODECS == {"h264"}

\* an audio whitelist of AAC alone
AacOnlyAudioCodecs == {"aac"}

SAFE_AUDIO_CODECS == {"aac", "mp3", "opus"}

SAFE_AUDIO_CHANNELS == 2

\* a stream the file does not have (the key is missing from the codecs dict)
Absent == "absent"

VideoCodecs == {Absent, "h264", "hevc"}

AudioCodecs == {Absent, "aac", "opus", "ac3"}

AudioChannels == {2, 6}

\* what probe_media_file returns; ffprobe failing, timing out or printing no
\* stream gives the empty dict, which is the record with both keys absent
ProbeResults == [v : VideoCodecs, a : AudioCodecs, channels : AudioChannels]

EmptyProbe(codecs) == codecs.v = Absent /\ codecs.a = Absent

\* the empty dict
EmptyCodecs == [v |-> Absent, a |-> Absent, channels |-> 2]

\* how a run of ffprobe ends: output with a streams list, the binary missing
\* (FileNotFoundError), a non-zero exit (CalledProcessError), output that is
\* no JSON (JSONDecodeError), the 30 s timeout (TimeoutExpired), JSON without
\* a "streams" key
ProbeOutcomes == {"ok", "ffprobe missing", "nonzero exit", "bad json", "timeout", "no streams"}

\* a run of ffprobe: its outcome and, when it printed streams, the codec of the
\* first video stream, of the first audio stream and the channels it reports
\* for that one (None: no channels key)
ProbeRuns ==
    [outcome : {"ok"}, v : VideoCodecs, a : AudioCodecs, channels : AudioChannels \cup {None}]
        \cup [outcome : ProbeOutcomes \ {"ok"}, v : {Absent}, a : {Absent}, channels : {None}]

\* a probe that answers a failed run with direct-playable codecs
ProbeAssumesPlayable(run) ==
    IF run.outcome # "ok" THEN [v |-> "h264", a |-> "aac", channels |-> 2]
    ELSE [v |-> run.v, a |-> run.a, channels |-> IF run.a = Absent THEN 2 ELSE IF run.channels = None THEN 6 ELSE run.channels]

\* main.py:299-321
probe_media_file(run) ==
    IF run.outcome # "ok" THEN EmptyCodecs
    ELSE [v |-> run.v, a |-> run.a, channels |-> IF run.a = Absent THEN 2 ELSE IF run.channels = None THEN 6 ELSE run.channels]

can_direct_play(ext, codecs) ==
    LET container == Lower(ext)
        video_ok == codecs.v # Absent /\ codecs.v \in SAFE_VIDEO_CODECS
        audio_ok == codecs.a # Absent /\ codecs.a \in SAFE_AUDIO_CODECS /\ codecs.channels <= SAFE_AUDIO_CHANNELS
    IN  IF container \notin DirectPlayContainers THEN FALSE
        ELSE IF EmptyProbe(codecs) THEN FALSE
        ELSE video_ok /\ audio_ok

QUALITY_PRESETS == {"low", "medium", "high"}

RESOLUTION_PRESETS == {"source", "1080p", "720p", "480p", "360p"}

\* quality values of the requests: presets, a bare CRF number, a token that is neither
Qualities == {"medium", "20", "ultra"}

\* int(quality) succeeds
IsInt(q) == q \in {"20"}

Scales == {"source", "720p", "4k"}

\* subtitle_id of a request: none given, or a subtitle row id
SubtitleIds == {None, 7}

\* the options of a GET /stream request with what the database (the tables that
\* item_type selects), the disk and ffprobe answer for it; seek_beyond says
\* that seek_time is larger than the item's duration_seconds
StreamInputs ==
    [prefer_direct : BOOLEAN, force_transcode : BOOLEAN, quality : Qualities, scale : Scales, subtitle_id : SubtitleIds, burn : BOOLEAN, seek_beyond : BOOLEAN, item_found : BOOLEAN, ext : Extensions, codecs : ProbeResults, sub_row_found : BOOLEAN, sub_file_exists : BOOLEAN]

\* force_transcode as the query parameter alone gives it
ForceTranscodeFlagOnly(i) == i.force_transcode

\* force_transcode when main.py:1015 reads it: the query parameter, set by
\* main.py:1000-1001 when a subtitle is given and burn is asked for
ForceTranscode(i) == i.force_transcode \/ (i.subtitle_id # None /\ i.burn)

\* the test of main.py:1015 without its scale conjunct
WantsDirectAnyScale(i, force) == ~force /\ i.prefer_direct

\* main.py:1015, the request's side of the direct-play test; force is
\* force_transcode as line 1001 may have set it
WantsDirect(i, force) == ~force /\ i.prefer_direct /\ i.scale = "source"

\* start_stream from the lookup of the item to the decision: the response
\* when the request ends here, or the order to create a transcode session
StreamDecision(i) ==
    LET has_sub == i.subtitle_id # None
        force == ForceTranscode(i)
        soft_sub == has_sub /\ ~i.burn
    IN  IF ~i.item_found THEN [status |-> 404, mode |-> "error", detail |-> "item not found", soft_sub |-> FALSE]
        ELSE IF has_sub /\ ~i.sub_row_found THEN [status |-> 404, mode |-> "error", detail |-> "subtitle not found", soft_sub |-> FALSE]
        ELSE IF has_sub /\ i.burn /\ ~i.sub_file_exists THEN [status |-> 404, mode |-> "error", detail |-> "subtitle file not found", soft_sub |-> FALSE]
        ELSE IF WantsDirect(i, force) /\ can_direct_play(i.ext, i.codecs) THEN [status |-> 200, mode |-> "direct", detail |-> "", soft_sub |-> soft_sub]
        ELSE IF i.quality \notin QUALITY_PRESETS /\ ~IsInt(i.quality) THEN [status |-> 400, mode |-> "error", detail |-> "invalid quality", soft_sub |-> FALSE]
        ELSE IF i.scale \notin RESOLUTION_PRESETS THEN [status |-> 400, mode |-> "error", detail |-> "invalid scale", soft_sub |-> FALSE]
        ELSE [status |-> 200, mode |-> "transcode", detail |-> "", soft_sub |-> soft_sub]

\* main.py:1042-1062 run, and with them a session is created, exactly when the
\* handler has not returned or raised before them
CreatesSession(d) == d.mode = "transcode"

\* the status and the mode of every decision some request can get: the
\* registry model draws the outcome of a request from these
StreamDecisions == {[status |-> StreamDecision(i).status, mode |-> StreamDecision(i).mode] : i \in StreamInputs}

(***************************************************************************)
(* The registry and what runs on it.                                       *)
(***************************************************************************)
Up == sweep.pc = "up"

\* the pure-function and segment-waiter variables rest while the registry runs
Rest == UNCHANGED <<wfr, fn>>

\* proc.terminate(); proc.wait(timeout=5); on TimeoutExpired proc.kill():
\* the process ends within the grace period or is killed after it
Terminated(p) == [proc EXCEPT ![p] = IF @ = "running" THEN "exited" ELSE @]

\* a running ffmpeg whose working directory is d
RunsIn(d) == d \in Sessions /\ proc[d] = "running"

\* shutil.rmtree(dir): the tree goes; against an ffmpeg that still creates
\* files in it the final rmdir can fail with OSError, which is logged
RmtreeResults(d) == IF RunsIn(d) THEN {dirs \ {d}, dirs} ELSE {dirs \ {d}}


------------------------------------------------------------------------------
\* GET /stream/{movie_id}, main.py:949: if movie_id in active_processes
SS_Begin(id) ==
    /\ Up /\ loop.pc = "idle" /\ nsess < MaxSessions
    /\ loop' = [IdleLoop EXCEPT !.movie_id = id, !.pc = IF HasKey(active_processes, id) THEN "pop" ELSE "lookup"]
    /\ UNCHANGED <<active_processes, proc, dirs, first, thread, nsess, stop, sweep>> /\ Rest

\* main.py:950-951: proc_info = active_processes.pop(movie_id); a thread that
\* removed the key since line 949 makes pop raise KeyError (a 500 response)
SS_Pop ==
    /\ loop.pc = "pop"
    /\ IF HasKey(active_processes, loop.movie_id)
       THEN /\ active_processes' = Without(active_processes, loop.movie_id)
            /\ loop' = [loop EXCEPT !.proc_info = Item(active_processes, loop.movie_id), !.pc = IF Item(active_processes, loop.movie_id).process # None THEN "terminate" ELSE "rmtree"]
       ELSE /\ active_processes' = active_processes
            /\ loop' = [loop EXCEPT !.pc = "return", !.resp = [status |-> 500, mode |-> "error"]]
    /\ UNCHANGED <<proc, dirs, first, thread, nsess, stop, sweep>> /\ Rest

\* main.py:952-959
SS_Terminate ==
    /\ loop.pc = "terminate"
    /\ proc' = Terminated(loop.proc_info.process)
    /\ loop' = [loop EXCEPT !.pc = "rmtree"]
    /\ UNCHANGED <<active_processes, dirs, first, thread, nsess, stop, sweep>> /\ Rest

\* main.py:961-966
SS_Rmtree ==
    /\ loop.pc = "rmtree"
    /\ \E left \in RmtreeResults(loop.proc_info.dir) : dirs' = left /\ first' = first \cap left
    /\ loop' = [loop EXCEPT !.pc = "lookup"]
    /\ UNCHANGED <<active_processes, proc, thread, nsess, stop, sweep>> /\ Rest

\* main.py:970-1040: the item, the subtitle, direct play or not, quality and scale
SS_Decide ==
    /\ loop.pc = "lookup"
    /\ \E d \in StreamDecisions :
          loop' = [loop EXCEPT !.pc = IF CreatesSession(d) THEN "makedirs" ELSE "return", !.resp = d]
    /\ UNCHANGED <<active_processes, proc, dirs, first, thread, nsess, stop, sweep>> /\ Rest

\* main.py:1042-1044: a fresh session id, os.makedirs(hls_output_dir)
SS_Makedirs ==
    /\ loop.pc = "makedirs"
    /\ nsess' = nsess + 1
    /\ dirs' = dirs \cup {nsess + 1}
    /\ loop' = [loop EXCEPT !.sid = nsess + 1, !.pc = "register"]
    /\ UNCHANGED <<active_processes, proc, first, thread, stop, sweep>> /\ Rest

\* main.py:1045: active_processes[movie_id] = {"process": None, "dir": hls_output_dir}
SS_Register ==
    /\ loop.pc = "register"
    /\ active_processes' = Put(active_processes, loop.movie_id, None, loop.sid)
    /\ loop' = [loop EXCEPT !.pc = "launch"]
    /\ UNCHANGED <<proc, dirs, first, thread, nsess, stop, sweep>> /\ Rest

\* main.py:1048-1083: the manifest is written into the directory (open fails
\* with a 500 when a stop_stream has removed it meanwhile), the encoder thread
\* is scheduled and the playlist URL is returned at once
SS_Launch ==
    /\ loop.pc = "launch"
    /\ IF loop.sid \in dirs
       THEN /\ thread' = [thread EXCEPT ![loop.sid] = [pc |-> "start", movie_id |-> loop.movie_id]]
            /\ loop' = [loop EXCEPT !.pc = "return", !.resp.mode = "hls"]
       ELSE /\ thread' = thread
            /\ loop' = [loop EXCEPT !.pc = "return", !.resp = [status |-> 500, mode |-> "error"]]
    /\ UNCHANGED <<active_processes, proc, dirs, first, nsess, stop, sweep>> /\ Rest

\* the response leaves the handler: a return statement or a raised HTTPException
SS_Return ==
    /\ loop.pc = "return"
    /\ loop' = IdleLoop
    /\ UNCHANGED <<active_processes, proc, dirs, first, thread, nsess, stop, sweep>> /\ Rest

------------------------------------------------------------------------------
\* a stop that answers 404 for an asset without a session
ST_BeginNotFound(id) ==
    /\ Up /\ stop.pc = "idle"
    /\ stop' = IF HasKey(active_processes, id) THEN [IdleStop EXCEPT !.movie_id = id, !.pc = "pop"] ELSE [IdleStop EXCEPT !.movie_id = id, !.pc = "return", !.status = 404]
    /\ UNCHANGED <<active_processes, proc, dirs, first, thread, nsess, loop, sweep>> /\ Rest

\* DELETE /stream/{movie_id}, main.py:1089 and, with no entry, 1106-1108
ST_Begin(id) ==
    /\ Up /\ stop.pc = "idle"
    /\ stop' = IF HasKey(active_processes, id) THEN [IdleStop EXCEPT !.movie_id = id, !.pc = "pop"] ELSE [IdleStop EXCEPT !.movie_id = id, !.pc = "return", !.status = 204]
    /\ UNCHANGED <<active_processes, proc, dirs, first, thread, nsess, loop, sweep>> /\ Rest

\* main.py:1090-1091
ST_Pop ==
    /\ stop.pc = "pop"
    /\ IF HasKey(active_processes, stop.movie_id)
       THEN /\ active_processes' = Without(active_processes, stop.movie_id)
            /\ stop' = [stop EXCEPT !.proc_info = Item(active_processes, stop.movie_id), !.pc = IF Item(active_processes, stop.movie_id).process # None THEN "terminate" ELSE "rmtree"]
       ELSE /\ active_processes' = active_processes
            /\ stop' = [stop EXCEPT !.pc = "return", !.status = 500]
    /\ UNCHANGED <<proc, dirs, first, thread, nsess, loop, sweep>> /\ Rest

\* main.py:1092-1099
ST_Terminate ==
    /\ stop.pc = "terminate"
    /\ proc' = Terminated(stop.proc_info.process)
    /\ stop' = [stop EXCEPT !.pc = "rmtree"]
    /\ UNCHANGED <<active_processes, dirs, first, thread, nsess, loop, sweep>> /\ Rest

\* main.py:1100-1108
ST_Rmtree ==
    /\ stop.pc = "rmtree"
    /\ \E left \in RmtreeResults(stop.proc_info.dir) : dirs' = left /\ first' = first \cap left
    /\ stop' = [stop EXCEPT !.pc = "return", !.status = 204]
    /\ UNCHANGED <<active_processes, proc, thread, nsess, loop, sweep>> /\ Rest

\* main.py:1108, the response leaves the handler
ST_Return ==
    /\ stop.pc = "return"
    /\ stop' = IdleStop
    /\ UNCHANGED <<active_processes, proc, dirs, first, thread, nsess, loop, sweep>> /\ Rest

------------------------------------------------------------------------------
\* run_ffmpeg_sync up to main.py:483, subprocess.Popen(..., cwd=hls_output_dir):
\* FileNotFoundError when the directory is gone, else ffmpeg runs
T_Popen(s) ==
    /\ thread[s].pc = "start"
    /\ IF s \in dirs
       THEN proc' = [proc EXCEPT ![s] = "running"] /\ thread' = [thread EXCEPT ![s].pc = "spawned"]
       ELSE proc' = proc /\ thread' = [thread EXCEPT ![s].pc = "finally"]
    /\ UNCHANGED <<active_processes, dirs, first, nsess, loop, stop, sweep>> /\ Rest

\* main.py:483, 495-498: Popen fails for a reason of its own (no ffmpeg on the PATH)
T_PopenFails(s) ==
    /\ thread[s].pc = "start"
    /\ thread' = [thread EXCEPT ![s].pc = "finally"]
    /\ UNCHANGED <<active_processes, proc, dirs, first, nsess, loop, stop, sweep>> /\ Rest

\* main.py:484: active_processes[movie_id] = {"process": process, "dir": hls_output_dir}
T_Register(s) ==
    /\ thread[s].pc = "spawned"
    /\ active_processes' = Put(active_processes, thread[s].movie_id, s, s)
    /\ thread' = [thread EXCEPT ![s].pc = "waiting"]
    /\ UNCHANGED <<proc, dirs, first, nsess, loop, stop, sweep>> /\ Rest

\* main.py:487-493: process.wait() returns once ffmpeg has ended
T_Wait(s) ==
    /\ thread[s].pc = "waiting" /\ proc[s] = "exited"
    /\ thread' = [thread EXCEPT ![s].pc = "finally"]
    /\ UNCHANGED <<active_processes, proc, dirs, first, nsess, loop, stop, sweep>> /\ Rest

\* a cleanup that leaves the registry as it is
T_FinallyKeepsEntry(s) ==
    /\ thread[s].pc = "finally"
    /\ thread' = [thread EXCEPT ![s].pc = "done"]
    /\ UNCHANGED <<active_processes, proc, dirs, first, nsess, loop, stop, sweep>> /\ Rest

\* main.py:506-509: if movie_id in active_processes: del active_processes[movie_id]
T_Finally(s) ==
    /\ thread[s].pc = "finally"
    /\ active_processes' = Without(active_processes, thread[s].movie_id)
    /\ thread' = [thread EXCEPT ![s].pc = "done"]
    /\ UNCHANGED <<proc, dirs, first, nsess, loop, stop, sweep>> /\ Rest

\* ffmpeg ends on its own: the file is done, or an error
P_Exit(s) ==
    /\ proc[s] = "running"
    /\ proc' = [proc EXCEPT ![s] = "exited"]
    /\ UNCHANGED <<active_processes, dirs, first, thread, nsess, loop, stop, sweep>> /\ Rest

\* ffmpeg completes the first segment file in its working directory
P_Segment(s) ==
    /\ proc[s] = "running" /\ s \in dirs /\ s \notin first
    /\ first' = first \cup {s}
    /\ UNCHANGED <<active_processes, proc, dirs, thread, nsess, loop, stop, sweep>> /\ Rest

------------------------------------------------------------------------------
\* lifespan after the yield, main.py:580-582: the server has stopped taking
\* requests and the handlers have returned; list(active_processes.items())
SD_Begin ==
    /\ Up /\ loop.pc = "idle" /\ stop.pc = "idle"
    /\ sweep' = [pc |-> "sweeping", todo |-> active_processes]
    /\ UNCHANGED <<active_processes, proc, dirs, first, thread, nsess, loop, stop>> /\ Rest

\* main.py:582-591: one turn of the loop, on the items as they were listed
SD_Step ==
    /\ sweep.pc = "sweeping" /\ sweep.todo # <<>>
    /\ proc' = IF Head(sweep.todo).process # None THEN Terminated(Head(sweep.todo).process) ELSE proc
    /\ sweep' = [sweep EXCEPT !.todo = Tail(@)]
    /\ UNCHANGED <<active_processes, dirs, first, thread, nsess, loop, stop>> /\ Rest

\* main.py:592: "All processes terminated."
SD_End ==
    /\ sweep.pc = "sweeping" /\ sweep.todo = <<>>
    /\ sweep' = [sweep EXCEPT !.pc = "down"]
    /\ UNCHANGED <<active_processes, proc, dirs, first, thread, nsess, loop, stop>> /\ Rest

------------------------------------------------------------------------------
\* the server after startup: lifespan has cleared static/hls, nothing runs
Init ==
    /\ active_processes = <<>>
    /\ proc = [s \in Sessions |-> "none"]
    /\ dirs = {}
    /\ first = {}
    /\ thread = [s \in Sessions |-> NoThread]
    /\ nsess = 0
    /\ loop = IdleLoop
    /\ stop = IdleStop
    /\ sweep = [pc |-> "up", todo |-> <<>>]
    /\ wfr = [pc |-> "off"]
    /\ fn = [pc |-> "off"]

Next ==
    \/ \E id \in MovieIds : SS_Begin(id)
    \/ SS_Pop
    \/ SS_Terminate
    \/ SS_Rmtree
    \/ SS_Decide
    \/ SS_Makedirs
    \/ SS_Register
    \/ SS_Launch
    \/ SS_Return
    \/ \E id \in MovieIds : ST_Begin(id)
    \/ ST_Pop
    \/ ST_Terminate
    \/ ST_Rmtree
    \/ ST_Return
    \/ \E s \in Sessions : T_Popen(s)
    \/ \E s \in Sessions : T_PopenFails(s)
    \/ \E s \in Sessions : T_Register(s)
    \/ \E s \in Sessions : T_Wait(s)
    \/ \E s \in Sessions : T_Finally(s)
    \/ \E s \in Sessions : P_Exit(s)
    \/ \E s \in Sessions : P_Segment(s)
    \/ SD_Begin
    \/ SD_Step
    \/ SD_End

Spec == Init /\ [][Next]_vars

(***************************************************************************)
(* generate_vod_manifest and the manifest start_stream writes.             *)
(***************************************************************************)
SEGMENT_DURATION_SEC == 10

\* longest duration, in seconds, of the assets under check
MaxDuration == 35
\* largest seek_time, in whole seconds, of the requests under check
MaxSeek == 35
\* segments the encoder may have written when the manifest is built
MaxEncoded == 2

Tokens == {"tokA", "tokB"}

\* the segment count rounded down instead of up
NumSegmentsFloor(duration_seconds) == duration_seconds \div SEGMENT_DURATION_SEC

\* math.ceil(duration_seconds / SEGMENT_DURATION_SEC), exact on these integers
NumSegments(duration_seconds) == (duration_seconds + SEGMENT_DURATION_SEC - 1) \div SEGMENT_DURATION_SEC

Min(a, b) == IF a <= b THEN a ELSE b

\* the lines "#EXTINF:<d>," and "stream<i>.ts?token=<token>" of segment i
Entry(i, d, token) == [extinf |-> d, index |-> i, token |-> token]

\* the loop of main.py:283-290 from segment i on: it ends at num_segments or
\* at the first segment that would have no duration left
RECURSIVE ManifestFrom(_, _, _, _)
ManifestFrom(i, num_segments, duration_seconds, token) ==
    IF i >= num_segments \/ Min(SEGMENT_DURATION_SEC, duration_seconds - i * SEGMENT_DURATION_SEC) <= 0
    THEN <<>>
    ELSE <<Entry(i, Min(SEGMENT_DURATION_SEC, duration_seconds - i * SEGMENT_DURATION_SEC), token)>> \o ManifestFrom(i + 1, num_segments, duration_seconds, token)

\* the segment entries of the playlist, in the order of its lines
generate_vod_manifest(duration_seconds, token) == ManifestFrom(0, NumSegments(duration_seconds), duration_seconds, token)

\* main.py:1049
StartSegmentNumber(seek_time) == IF seek_time > 0 THEN seek_time \div SEGMENT_DURATION_SEC ELSE 0

\* a manifest that starts at the segment of the seek offset
StreamManifestFromSeek(seek_time, duration, token) == ManifestFrom(StartSegmentNumber(seek_time), NumSegments(duration), duration, token)

\* main.py:1055: the manifest of a session that starts at seek_time
StreamManifest(seek_time, duration, token) == generate_vod_manifest(duration, token)

InitManifest ==
    /\ active_processes = <<>> /\ proc = [s \in Sessions |-> "none"] /\ dirs = {} /\ first = {}
    /\ thread = [s \in Sessions |-> NoThread] /\ nsess = 0 /\ loop = IdleLoop /\ stop = IdleStop
    /\ sweep = [pc |-> "up", todo |-> <<>>] /\ wfr = [pc |-> "off"]
    /\ fn \in [pc : {"in"}, duration : 0..MaxDuration, token : Tokens, seek_time : 0..MaxSeek, encoded : 0..MaxEncoded, start : {0}, manifest : {<<>>}]

\* start_stream, main.py:1048-1057, on the drawn request
FN_WriteManifest ==
    /\ fn.pc = "in"
    /\ fn' = [fn EXCEPT !.pc = "out", !.start = StartSegmentNumber(fn.seek_time), !.manifest = StreamManifest(fn.seek_time, fn.duration, fn.token)]
    /\ UNCHANGED <<active_processes, proc, dirs, first, thread, nsess, loop, stop, sweep, wfr>>

NextManifest == FN_WriteManifest

SpecManifest == InitManifest /\ [][NextManifest]_vars

(***************************************************************************)
(* The decision of start_stream on every request, item and probe result.   *)
(***************************************************************************)
InitDecision ==
    /\ active_processes = <<>> /\ proc = [s \in Sessions |-> "none"] /\ dirs = {} /\ first = {}
    /\ thread = [s \in Sessions |-> NoThread] /\ nsess = 0 /\ loop = IdleLoop /\ stop = IdleStop
    /\ sweep = [pc |-> "up", todo |-> <<>>] /\ wfr = [pc |-> "off"]
    /\ \E i \in StreamInputs : fn = [pc |-> "in", input |-> i, decision |-> [status |-> 0, mode |-> "none", detail |-> "", soft_sub |-> FALSE], session |-> FALSE]

\* start_stream, main.py:970-1046, on the drawn request: the decision, and
\* whether the handler goes on to create a session
FN_Decide ==
    /\ fn.pc = "in"
    /\ fn' = [fn EXCEPT !.pc = "out", !.decision = StreamDecision(fn.input), !.session = CreatesSession(StreamDecision(fn.input))]
    /\ UNCHANGED <<active_processes, proc, dirs, first, thread, nsess, loop, stop, sweep, wfr>>

NextDecision == FN_Decide

SpecDecision == InitDecision /\ [][NextDecision]_vars

(***************************************************************************)
(* The same decision with the run of ffprobe that can_direct_play starts.  *)
(***************************************************************************)
\* the requests of StreamInputs before the file is probed
ProbeInputs ==
    [prefer_direct : BOOLEAN, force_transcode : BOOLEAN, quality : Qualities, scale : Scales, subtitle_id : SubtitleIds, burn : BOOLEAN, seek_beyond : {FALSE}, item_found : BOOLEAN, ext : Extensions, codecs : {EmptyCodecs}, sub_row_found : BOOLEAN, sub_file_exists : BOOLEAN]

InitProbe ==
    /\ active_processes = <<>> /\ proc = [s \in Sessions |-> "none"] /\ dirs = {} /\ first = {}
    /\ thread = [s \in Sessions |-> NoThread] /\ nsess = 0 /\ loop = IdleLoop /\ stop = IdleStop
    /\ sweep = [pc |-> "up", todo |-> <<>>] /\ wfr = [pc |-> "off"]
    /\ \E i \in ProbeInputs, run \in ProbeRuns :
          fn = [pc |-> "in", input |-> i, run |-> run, decision |-> [status |-> 0, mode |-> "none", detail |-> "", soft_sub |-> FALSE], session |-> FALSE]

\* start_stream, main.py:970-1046, with the probe of main.py:328 inside
\* can_direct_play
FN_ProbeAndDecide ==
    /\ fn.pc = "in"
    /\ LET probed == [fn.input EXCEPT !.codecs = probe_media_file(fn.run)]
       IN  fn' = [fn EXCEPT !.pc = "out", !.input = probed, !.decision = StreamDecision(probed), !.session = CreatesSession(StreamDecision(probed))]
    /\ UNCHANGED <<active_processes, proc, dirs, first, thread, nsess, loop, stop, sweep, wfr>>

NextProbe == FN_ProbeAndDecide

SpecProbe == InitProbe /\ [][NextProbe]_vars

(***************************************************************************)
(* wait_for_ready behind HLSStaticFiles.get_response: one request for a    *)
(* .ts file.  Time is counted in poll intervals of 0.25 s; the file is the *)
(* environment's and may be anything at each poll.                         *)
(***************************************************************************)
MIN_SEG_BYTES == 32 * 1024

STABILITY_CHECKS == 2

SEG_TIMEOUT_SEC == 120

\* 1 / POLL_INTERVAL_SEC: poll intervals in a second
PollsPerSec == 4

\* time.time() - start_time > SEG_TIMEOUT_SEC, on the clock in poll intervals
TimeoutTicks == SEG_TIMEOUT_SEC * PollsPerSec

\* longest time, in poll intervals, from one poll to the next: asyncio.sleep
\* gives at least one, a busy event loop more
MaxDelay == 3
\* the file sizes are 0, MIN_SEG_BYTES - 1 and MIN_SEG_BYTES .. MIN_SEG_BYTES + MaxGrowth
MaxGrowth == 2

Sizes == {0} \cup {MIN_SEG_BYTES + k : k \in (0 - 1)..MaxGrowth}

\* what one poll finds: no file, or a file of some size
NoFile == [exists |-> FALSE, size |-> 0]

Observations == {NoFile} \cup [exists : {TRUE}, size : Sizes]

\* the test at the head of the loop never fires
NeverTimedOut(elapsed) == FALSE

\* main.py:253
TimedOut(elapsed) == elapsed > TimeoutTicks

\* the stability count of a poll that only looks at the minimum size
StableCountAnySize(stable_count, last_size, size) == IF size >= MIN_SEG_BYTES THEN stable_count + 1 ELSE 0

\* the stability count of a poll that only looks for an unchanged size
StableCountNoMinimum(stable_count, last_size, size) == IF size = last_size THEN stable_count + 1 ELSE 0

\* main.py:258-263: stable_count after a poll that finds the file with this size
StableCount(stable_count, last_size, size) == IF size >= MIN_SEG_BYTES /\ size = last_size THEN stable_count + 1 ELSE 0

\* the clock after the sleep; past the timeout its value no longer matters
Later(elapsed, delay) == Min(elapsed + delay, TimeoutTicks + 1)

\* wfr also keeps what the polls saw, for the properties: prev and cur are the
\* file at the preceding and at the latest poll, grew says that some poll saw
\* the file bigger than the poll before it, growing that every poll after a
\* poll that saw the file has seen it bigger, run counts (up to
\* STABILITY_CHECKS) the latest polls in a row that each found the file with
\* at least MIN_SEG_BYTES and with the size the poll just before it found
InitWait ==
    /\ active_processes = <<>> /\ proc = [s \in Sessions |-> "none"] /\ dirs = {} /\ first = {}
    /\ thread = [s \in Sessions |-> NoThread] /\ nsess = 0 /\ loop = IdleLoop /\ stop = IdleStop
    /\ sweep = [pc |-> "up", todo |-> <<>>] /\ fn = [pc |-> "off"]
    /\ wfr = [pc |-> "polling", elapsed |-> 0, stable_count |-> 0, last_size |-> 0 - 1, prev |-> NoFile, cur |-> NoFile, grew |-> FALSE, growing |-> TRUE, run |-> 0, ended |-> "no", status |-> 0]

WaitRest == UNCHANGED <<active_processes, proc, dirs, first, thread, nsess, loop, stop, sweep, fn>>

\* main.py:253-254: raise FileNotFoundError("Segment not ready after ...")
WFR_Timeout ==
    /\ wfr.pc = "polling" /\ TimedOut(wfr.elapsed)
    /\ wfr' = [wfr EXCEPT !.pc = "ended", !.ended = "timeout"]
    /\ WaitRest

\* main.py:256 and 266: os.path.exists(path) is false; sleep
WFR_PollNoFile(delay) ==
    /\ wfr.pc = "polling" /\ ~TimedOut(wfr.elapsed)
    /\ wfr' = [wfr EXCEPT !.prev = wfr.cur, !.cur = NoFile, !.growing = @ /\ ~wfr.cur.exists, !.run = 0, !.elapsed = Later(@, delay)]
    /\ WaitRest

\* main.py:256-257: the file is there for os.path.exists and gone for
\* os.path.getsize (a stop_stream on its worker thread removed the directory
\* in between), which raises FileNotFoundError out of wait_for_ready
WFR_PollVanished ==
    /\ wfr.pc = "polling" /\ ~TimedOut(wfr.elapsed)
    /\ wfr' = [wfr EXCEPT !.pc = "ended", !.ended = "vanished", !.prev = wfr.cur, !.cur = NoFile, !.growing = @ /\ ~wfr.cur.exists, !.run = 0]
    /\ WaitRest

\* main.py:256-266: the file is there with this size; return, or sleep
WFR_PollFile(size, delay) ==
    /\ wfr.pc = "polling" /\ ~TimedOut(wfr.elapsed)
    /\ LET count == StableCount(wfr.stable_count, wfr.last_size, size)
           seen == [exists |-> TRUE, size |-> size]
           bigger == wfr.cur.exists /\ size > wfr.cur.size
           grew == wfr.grew \/ bigger
           growing == wfr.growing /\ (wfr.cur.exists => bigger)
           run == IF size >= MIN_SEG_BYTES /\ wfr.cur.exists /\ wfr.cur.size = size THEN Min(wfr.run + 1, STABILITY_CHECKS) ELSE 0
       IN  IF count >= STABILITY_CHECKS
           THEN wfr' = [wfr EXCEPT !.pc = "ended", !.ended = "ready", !.stable_count = count, !.prev = wfr.cur, !.cur = seen, !.grew = grew, !.growing = growing, !.run = run]
           ELSE wfr' = [wfr EXCEPT !.stable_count = count, !.last_size = size, !.prev = wfr.cur, !.cur = seen, !.grew = grew, !.growing = growing, !.run = run, !.elapsed = Later(@, delay)]
    /\ WaitRest

\* main.py:618-626: after "ready" StaticFiles serves the file, or answers 404
\* when it is no longer there; FileNotFoundError becomes the 404 of line 622
HLS_Respond(there) ==
    /\ wfr.pc = "ended"
    /\ wfr' = [wfr EXCEPT !.pc = "responded", !.status = IF wfr.ended = "ready" /\ there THEN 200 ELSE 404]
    /\ WaitRest

NextWait ==
    \/ WFR_Timeout
    \/ \E delay \in 1..MaxDelay : WFR_PollNoFile(delay)
    \/ WFR_PollVanished
    \/ \E size \in Sizes, delay \in 1..MaxDelay : WFR_PollFile(size, delay)
    \/ \E there \in BOOLEAN : HLS_Respond(there)

\* the event loop resumes the coroutine after every sleep
SpecWait == InitWait /\ [][NextWait]_vars /\ WF_vars(NextWait)


(***************************************************************************)
(* Properties of the registry (under Spec).                                *)
(***************************************************************************)
\* the sessions of movie_id id whose ffmpeg child is running
Running(id) == {s \in Sessions : thread[s].movie_id = id /\ proc[s] = "running"}

\* C1: at every instant, under any interleaving of GET /stream, DELETE /stream
\* and encoder threads for one asset id, at most one transcode session is live
\* for that asset: active_processes holds at most one entry for the id and at
\* most one ffmpeg child launched for that id is running.
C1_AtMostOneLiveSession ==
    \A id \in MovieIds :
        /\ Cardinality({i \in 1..Len(active_processes) : active_processes[i].key = id}) <= 1
        /\ Cardinality(Running(id)) <= 1

\* C2: when a GET /stream that needs transcoding finds a session of its asset,
\* the old session's encoder is terminated and its directory is deleted before
\* the new session's directory is created and before the new session is
\* registered, also when the old encoder had not been launched yet.  The
\* handler is at "register" once the new directory exists and at "launch"
\* once the new session is registered.
C2_OldSessionGoneBeforeNew ==
    (loop.pc \in {"register", "launch"} /\ loop.proc_info.dir # 0) =>
        (proc[loop.proc_info.dir] # "running" /\ loop.proc_info.dir \notin dirs)

\* C3: after the shutdown sweep has run, no ffmpeg child started by the server
\* is running and none is started afterwards, whatever the registry held.
C3_NoEncoderAfterShutdown ==
    sweep.pc = "down" => \A s \in Sessions : proc[s] # "running"

\* C5: GET /stream in transcode mode returns the playlist URL only after the
\* first segments of the new session are ready (here: the first one at least).
C5_PlaylistAfterFirstSegments ==
    (loop.pc = "return" /\ loop.resp.mode = "hls") => loop.sid \in first


(***************************************************************************)
(* Properties of the segment waiter (under SpecWait).                      *)
(***************************************************************************)
\* C4: wait_for_ready never returns "ready" at a poll on which the file's size
\* differs from the size seen at the immediately preceding poll; in particular
\* a file whose size grows between every two consecutive polls is never
\* reported ready.
C4_NotReadyWhileSizeChanges ==
    wfr.ended = "ready" =>
        /\ wfr.prev.exists => wfr.cur.size = wfr.prev.size
        /\ ~wfr.growing

\* a file that grew, then kept its size, is reported ready
C4_Witness ==
    /\ wfr.ended = "ready" /\ wfr.grew /\ wfr.prev.exists
    /\ wfr.cur.size = wfr.prev.size /\ wfr.cur.size >= MIN_SEG_BYTES

\* C6 as stated: wait_for_ready ends only with "ready" or, once more than
\* SEG_TIMEOUT_SEC have elapsed, with the timeout.
C6_EndsReadyOrTimeout ==
    wfr.pc \in {"ended", "responded"} => (wfr.ended = "ready" \/ (wfr.ended = "timeout" /\ wfr.elapsed > TimeoutTicks))

\* C6, amended: a request for a .ts segment always gets a response, whatever
\* the file does.  wait_for_ready ends with "ready", with the timeout once more
\* than SEG_TIMEOUT_SEC have elapsed, or at once with the FileNotFoundError of
\* os.path.getsize when the file is deleted between the existence test and the
\* size read; HLSStaticFiles turns both errors into a 404.
C6_AlwaysAnswered ==
    /\ <>(wfr.pc = "responded")
    /\ [](wfr.pc = "responded" =>
            /\ wfr.ended \in {"ready", "timeout", "vanished"}
            /\ wfr.ended = "timeout" => (wfr.elapsed > TimeoutTicks /\ wfr.status = 404)
            /\ wfr.ended = "vanished" => wfr.status = 404
            /\ wfr.status = 200 => wfr.ended = "ready")

\* a file that never became ready: 404 after the timeout
C6_Witness ==
    /\ wfr.pc = "responded" /\ wfr.ended = "timeout" /\ wfr.status = 404
    /\ wfr.elapsed > TimeoutTicks /\ wfr.cur.exists /\ wfr.cur.size < MIN_SEG_BYTES


(***************************************************************************)
(* Properties of the manifest (under SpecManifest).                        *)
(***************************************************************************)
RECURSIVE SumExtinf(_)
SumExtinf(m) == IF m = <<>> THEN 0 ELSE Head(m).extinf + SumExtinf(Tail(m))

\* C7: for every integer duration D >= 0 and L = SEGMENT_DURATION_SEC the
\* manifest has exactly ceil(D/L) segment entries (the n with (n-1)*L < D <= n*L,
\* and n = 0 for D = 0); every entry but the last declares L, the last declares
\* D - (n-1)*L, and the declared durations sum to D.
C7_SegmentCountAndDurations ==
    fn.pc = "out" =>
        LET m == fn.manifest
            n == Len(fn.manifest)
            D == fn.duration
        IN  /\ n * SEGMENT_DURATION_SEC >= D
            /\ n = 0 \/ (n - 1) * SEGMENT_DURATION_SEC < D
            /\ \A k \in 1..(n - 1) : m[k].extinf = SEGMENT_DURATION_SEC
            /\ n > 0 => m[n].extinf = D - (n - 1) * SEGMENT_DURATION_SEC
            /\ SumExtinf(m) = D

\* a duration that is no multiple of L got its short last segment
C7_Witness ==
    /\ fn.pc = "out" /\ fn.duration = 2 * SEGMENT_DURATION_SEC + 5
    /\ Len(fn.manifest) = 3 /\ fn.manifest[2].extinf = SEGMENT_DURATION_SEC /\ fn.manifest[3].extinf = 5

\* C8: the manifest written for a session depends only on the duration and the
\* token: for every seek_time and every number of segments the encoder has
\* written, it lists stream0.ts .. stream(n-1).ts of the whole duration in
\* order, each with the caller's token as query parameter.
C8_FullManifestWithToken ==
    fn.pc = "out" =>
        /\ Len(fn.manifest) * SEGMENT_DURATION_SEC >= fn.duration
        /\ \A k \in 1..Len(fn.manifest) : fn.manifest[k].index = k - 1 /\ fn.manifest[k].token = fn.token

\* a request that seeks into the third segment, nothing encoded yet
C8_Witness ==
    /\ fn.pc = "out" /\ fn.seek_time = 2 * SEGMENT_DURATION_SEC + 1 /\ fn.start = 2 /\ fn.encoded = 0
    /\ fn.token = "tokB" /\ Len(fn.manifest) = 3 /\ fn.manifest[1].index = 0 /\ fn.manifest[1].token = "tokB"

(***************************************************************************)
(* Properties of the direct-play decision (under SpecDecision).            *)
(***************************************************************************)
\* a file with h264 video and stereo aac audio
SafeCodecs(c) == c.v = "h264" /\ c.a = "aac" /\ c.channels = 2

C10_ScaledNeverDirect ==
    (fn.pc = "out" /\ fn.input.scale # "source") => fn.decision.mode # "direct"

\* an .mp4 with direct-playable codecs and scale=720p: transcode
C10_Witness ==
    /\ fn.pc = "out" /\ fn.input.ext = ".mp4" /\ SafeCodecs(fn.input.codecs) /\ fn.input.item_found
    /\ fn.input.prefer_direct /\ ~fn.input.force_transcode /\ fn.input.scale = "720p" /\ fn.input.subtitle_id = None
    /\ fn.decision.mode = "transcode"

\* C11 as stated: every request with force_transcode=true or burn=true, for
\* every value of subtitle_id including none, is never answered with mode
\* direct.
C11_ForcedOrBurnNeverDirect ==
    (fn.pc = "out" /\ (fn.input.force_transcode \/ fn.input.burn)) => fn.decision.mode # "direct"

\* C11: every request with force_transcode=true, or with burn=true and a
\* subtitle_id, is never answered with mode direct, even when the container
\* and the codecs qualify for direct play.
C11_ForcedOrBurnedSubtitleNeverDirect ==
    (fn.pc = "out" /\ (fn.input.force_transcode \/ (fn.input.burn /\ fn.input.subtitle_id # None))) => fn.decision.mode # "direct"

\* burn=true on a subtitle of a direct-playable .mp4, no force_transcode: transcode
C11_Witness ==
    /\ fn.pc = "out" /\ fn.input.ext = ".mp4" /\ SafeCodecs(fn.input.codecs) /\ fn.input.item_found
    /\ fn.input.prefer_direct /\ ~fn.input.force_transcode /\ fn.input.scale = "source"
    /\ fn.input.burn /\ fn.input.subtitle_id # None /\ fn.decision.mode = "transcode"

\* the file of C12: container, video and audio that can_direct_play accepts
DirectPlayable(i) ==
    /\ Lower(i.ext) \in {".mp4", ".m4v", ".webm"} /\ i.codecs.v = "h264"
    /\ i.codecs.a \in {"aac", "mp3", "opus"} /\ i.codecs.channels <= 2

\* C12: for an asset in the library with extension .mp4, .m4v or .webm, h264
\* video and aac, mp3 or opus audio of at most 2 channels, a request with
\* prefer_direct=true, scale=source, force_transcode=false and no subtitle
\* burn (no subtitle, or a subtitle of the asset kept soft) is answered with
\* mode direct, and the handler creates no transcode session for it.
C12_DirectPlayableAnsweredDirect ==
    (/\ fn.pc = "out" /\ fn.input.item_found /\ DirectPlayable(fn.input)
     /\ fn.input.prefer_direct /\ fn.input.scale = "source" /\ ~fn.input.force_transcode
     /\ (fn.input.subtitle_id = None \/ (~fn.input.burn /\ fn.input.sub_row_found)))
        => (fn.decision.status = 200 /\ fn.decision.mode = "direct" /\ ~fn.session)

\* a .webm with stereo opus audio and a soft subtitle is played directly
C12_Witness ==
    /\ fn.pc = "out" /\ fn.input.item_found /\ fn.input.ext = ".webm" /\ fn.input.codecs.v = "h264"
    /\ fn.input.codecs.a = "opus" /\ fn.input.codecs.channels = 2
    /\ fn.input.prefer_direct /\ fn.input.scale = "source" /\ ~fn.input.force_transcode
    /\ fn.input.subtitle_id # None /\ ~fn.input.burn /\ fn.input.sub_row_found
    /\ fn.decision.mode = "direct" /\ ~fn.session

\* the requests C14 calls invalid
InvalidRequest(i) ==
    \/ (i.quality \notin QUALITY_PRESETS /\ ~IsInt(i.quality))
    \/ i.scale \notin RESOLUTION_PRESETS
    \/ (i.subtitle_id # None /\ ~i.sub_row_found)
    \/ i.seek_beyond

\* C14: a request with an unknown quality or scale token, a subtitle id that
\* does not belong to the asset, or a seek_time beyond the asset's duration is
\* rejected with an error response and no session is created for it.
C14_InvalidRequestRejected ==
    (fn.pc = "out" /\ InvalidRequest(fn.input)) => (fn.decision.mode = "error" /\ ~fn.session)

(***************************************************************************)
(* Properties of the probe (under SpecProbe).                              *)
(***************************************************************************)
\* a request that passes every test of start_stream on the request itself
ValidRequest(i) ==
    /\ i.item_found /\ (i.subtitle_id # None => (i.sub_row_found /\ (i.burn => i.sub_file_exists)))
    /\ (i.quality \in QUALITY_PRESETS \/ IsInt(i.quality)) /\ i.scale \in RESOLUTION_PRESETS

\* C13: when ffprobe fails (binary missing, non-zero exit, unparsable output,
\* timeout, no stream data) probe_media_file returns the empty result, and the
\* request is then never answered direct and never answered with an error
\* because of the probe: it gets the answer the same request gets for a file
\* whose codecs are not direct-playable, a transcode session when the request
\* is valid.
C13_ProbeFailureMeansTranscode ==
    (fn.pc = "out" /\ fn.run.outcome # "ok") =>
        /\ fn.input.codecs = EmptyCodecs
        /\ fn.decision.mode # "direct"
        /\ fn.decision = StreamDecision([fn.input EXCEPT !.codecs = [v |-> "hevc", a |-> "ac3", channels |-> 6]])
        /\ ValidRequest(fn.input) => (fn.decision.status = 200 /\ fn.decision.mode = "transcode" /\ fn.session)

\* ffprobe times out on an .mp4 asked with prefer_direct and scale=source
C13_Witness ==
    /\ fn.pc = "out" /\ fn.run.outcome = "timeout" /\ fn.input.ext = ".mp4" /\ ValidRequest(fn.input)
    /\ fn.input.prefer_direct /\ ~fn.input.force_transcode /\ fn.input.scale = "source" /\ fn.input.subtitle_id = None
    /\ fn.decision.mode = "transcode" /\ fn.session

(***************************************************************************)
(* Properties of stop_stream (under Spec).                                 *)
(***************************************************************************)
\* C15: a DELETE /stream/{id} for an asset without a registry entry is answered
\* 204 and changes nothing: the registry, the processes, the directories and
\* the encoder threads are as before. A stop repeated after a stop that
\* removed the entry is such a request, so it adds nothing to the first.
C15_StopWithoutSessionChangesNothing ==
    [][(stop.pc = "idle" /\ stop'.pc = "return") => (stop'.status = 204 /\ UNCHANGED <<active_processes, proc, dirs, first, thread, nsess>>)]_vars

\* asset 2 is stopped with no session of its own while an encoder of asset 1 runs
C15_Witness ==
    /\ stop.pc = "return" /\ stop.status = 204 /\ stop.proc_info = NoInfo /\ stop.movie_id = 2
    /\ HasKey(active_processes, 1) /\ RunsIn(Item(active_processes, 1).dir)

\* C16: when DELETE /stream/{id} returns for an asset that had a session, under
\* every interleaving with the session's encoder thread, the registry has no
\* entry of that session, no encoder of it runs or is still to be started, and
\* its directory is deleted.
C16_StoppedSessionGone ==
    (stop.pc = "return" /\ stop.proc_info.dir # 0) =>
        LET d == stop.proc_info.dir
        IN  /\ \A i \in 1..Len(active_processes) : active_processes[i].dir # d
            /\ proc[d] # "running"
            /\ ~(thread[d].pc = "start" /\ d \in dirs)
            /\ d \notin dirs

(***************************************************************************)
(* GET /direct/{movie_id} with a Range header, and range_streamer.          *)
(***************************************************************************)
\* main.py:349, 1024 * 1024 * 2 bytes
CHUNK == 1024 * 1024 * 2

MaxChunks == 2

\* byte offsets and file sizes on both sides of the chunk boundaries
RangePoints == {p \in {c * CHUNK + d : c \in 0..MaxChunks, d \in {0 - 1, 0, 1}} : p >= 0}

\* the second group of the header's match is the empty string
NoEnd == 0 - 1

\* bytes=start-end with the end of the request taken as it is written
direct_range_unclamped(start, end_str, size) ==
    LET end == IF end_str # NoEnd THEN end_str ELSE size - 1
    IN  IF start > end \/ start < 0 \/ end >= size
        THEN [status |-> 416, start |-> NoEnd, end |-> NoEnd, size |-> size, length |-> 0]
        ELSE [status |-> 206, start |-> start, end |-> end, size |-> size, length |-> end - start + 1]

\* main.py:828-846: the status, the Content-Range (bytes start-end/size, or
\* bytes */size) and the Content-Length of the response
direct_range(start, end_str, size) ==
    LET end == IF end_str # NoEnd THEN Min(end_str, size - 1) ELSE size - 1
    IN  IF start > end \/ start < 0 \/ end >= size
        THEN [status |-> 416, start |-> NoEnd, end |-> NoEnd, size |-> size, length |-> 0]
        ELSE [status |-> 206, start |-> start, end |-> end, size |-> size, length |-> end - start + 1]

\* a reader that asks for a whole chunk every time
FullChunk(remaining) == CHUNK

\* main.py:349
chunk_size(remaining) == Min(CHUNK, remaining)

\* f.read(n) at offset pos of a file of size bytes: the bytes there are, at most n
ReadLen(pos, n, size) == IF pos >= size THEN 0 ELSE Min(n, size - pos)

NoRange == [status |-> 0, start |-> NoEnd, end |-> NoEnd, size |-> 0, length |-> 0]

\* a file of the library and the Range header bytes=start-end of a request
InitRange ==
    /\ active_processes = <<>> /\ proc = [s \in Sessions |-> "none"] /\ dirs = {} /\ first = {}
    /\ thread = [s \in Sessions |-> NoThread] /\ nsess = 0 /\ loop = IdleLoop /\ stop = IdleStop
    /\ sweep = [pc |-> "up", todo |-> <<>>] /\ wfr = [pc |-> "off"]
    /\ \E size \in RangePoints, start \in RangePoints, end_str \in RangePoints \cup {NoEnd} :
          fn = [pc |-> "in", size |-> size, start |-> start, end_str |-> end_str, resp |-> NoRange, pos |-> 0, remaining |-> 0, chunks |-> <<>>]

RangeRest == UNCHANGED <<active_processes, proc, dirs, first, thread, nsess, loop, stop, sweep, wfr>>

\* direct_stream, main.py:828-846
DS_Respond ==
    /\ fn.pc = "in"
    /\ LET r == direct_range(fn.start, fn.end_str, fn.size)
       IN  fn' = [fn EXCEPT !.resp = r, !.pc = IF r.status = 206 THEN "open" ELSE "done"]
    /\ RangeRest

\* range_streamer, main.py:346-348
RS_Open ==
    /\ fn.pc = "open"
    /\ fn' = [fn EXCEPT !.pc = "loop", !.pos = fn.resp.start, !.remaining = fn.resp.end - fn.resp.start + 1]
    /\ RangeRest

\* main.py:349-355: one turn of the while loop; each yielded chunk is kept
\* with its offset in the file
RS_Chunk ==
    /\ fn.pc = "loop" /\ fn.remaining > 0
    /\ LET data == ReadLen(fn.pos, chunk_size(fn.remaining), fn.size)
       IN  IF data = 0
           THEN fn' = [fn EXCEPT !.pc = "done"]
           ELSE fn' = [fn EXCEPT !.chunks = Append(@, [offset |-> fn.pos, len |-> data]), !.pos = @ + data, !.remaining = @ - data]
    /\ RangeRest

\* main.py:348: remaining is 0, the generator ends and the file is closed
RS_End ==
    /\ fn.pc = "loop" /\ fn.remaining <= 0
    /\ fn' = [fn EXCEPT !.pc = "done"]
    /\ RangeRest

NextRange == DS_Respond \/ RS_Open \/ RS_Chunk \/ RS_End

SpecRange == InitRange /\ [][NextRange]_vars

(***************************************************************************)
(* Properties of the range server (under SpecRange).                       *)
(***************************************************************************)
\* the last byte a request asks for: its end, or the last byte of the file
RequestedEnd == IF fn.end_str # NoEnd THEN fn.end_str ELSE fn.size - 1

\* C17 as stated: with end the requested end (size-1 when none is given), the
\* answer is 416 whenever start > end or end >= size, and 206 otherwise.
C17_UnsatisfiableIffOutsideFile ==
    fn.pc # "in" =>
        /\ (fn.start > RequestedEnd \/ RequestedEnd >= fn.size) => fn.resp.status = 416
        /\ (fn.start <= RequestedEnd /\ RequestedEnd < fn.size) => fn.resp.status = 206

\* C17: an end at or past the end of the file is first cut to size-1; the
\* answer is 416 exactly when start is beyond that end (start > end, or start
\* >= size, which is every request on an empty file), and 206 otherwise.
C17_UnsatisfiableIffStartBeyondEnd ==
    fn.pc # "in" =>
        /\ (fn.start > Min(RequestedEnd, fn.size - 1)) => (fn.resp.status = 416 /\ fn.resp.size = fn.size)
        /\ (fn.start <= Min(RequestedEnd, fn.size - 1)) => (fn.resp.status = 206 /\ fn.resp.end = Min(RequestedEnd, fn.size - 1))

\* a request whose end is past the file gets 206 up to the last byte
C17_Witness ==
    /\ fn.pc = "done" /\ fn.size = CHUNK /\ fn.start = 1 /\ fn.end_str = CHUNK + 1
    /\ fn.resp.status = 206 /\ fn.resp.end = CHUNK - 1

RECURSIVE SumLen(_)
SumLen(chunks) == IF chunks = <<>> THEN 0 ELSE Head(chunks).len + SumLen(Tail(chunks))

\* C18: every satisfiable range bytes=start-end on a file of size S is answered
\* 206 with Content-Range bytes start-end/S and Content-Length end-start+1,
\* and range_streamer yields the bytes at offsets start..end and no others,
\* in order, in chunks of at most 2 MiB, and then stops.
C18_RangeStreamedExactly ==
    (fn.pc # "in" /\ fn.start <= RequestedEnd /\ RequestedEnd < fn.size) =>
        /\ fn.resp = [status |-> 206, start |-> fn.start, end |-> RequestedEnd, size |-> fn.size, length |-> RequestedEnd - fn.start + 1]
        /\ \A k \in 1..Len(fn.chunks) :
              /\ fn.chunks[k].len >= 1 /\ fn.chunks[k].len <= 2 * 1024 * 1024
              /\ fn.chunks[k].offset = IF k = 1 THEN fn.start ELSE fn.chunks[k - 1].offset + fn.chunks[k - 1].len
              /\ fn.chunks[k].offset + fn.chunks[k].len - 1 <= RequestedEnd
        /\ fn.pc = "done" => (SumLen(fn.chunks) = RequestedEnd - fn.start + 1 /\ fn.remaining = 0)

\* a whole file of two chunks and one byte, streamed in three chunks
C18_Witness ==
    /\ fn.pc = "done" /\ fn.start = 0 /\ fn.end_str = 2 * CHUNK /\ fn.size = 2 * CHUNK + 1
    /\ Len(fn.chunks) = 3 /\ fn.chunks[3] = [offset |-> 2 * CHUNK, len |-> 1]

(***************************************************************************)
(* Further properties of the segment waiter (under SpecWait).              *)
(***************************************************************************)
\* C19: wait_for_ready returns "ready" exactly at the first poll that completes
\* STABILITY_CHECKS (2) polls in a row on each of which the file exists, has at
\* least MIN_SEG_BYTES and has the size it had at the poll just before; a
\* poll that finds the file missing, smaller or of another size starts the
\* count again.
C19_ReadyAtSecondConsecutiveStablePoll ==
    /\ wfr.ended = "ready" => wfr.run >= STABILITY_CHECKS
    /\ wfr.pc = "polling" => wfr.run < STABILITY_CHECKS

(***************************************************************************)
(* One termination of an encoder: proc.terminate(), proc.wait(timeout=5)   *)
(* and, on TimeoutExpired, proc.kill(), as start_stream, stop_stream and   *)
(* the shutdown part of lifespan each write it out.                        *)
(***************************************************************************)
\* the functions that hold the sequence
TerminationSites == {"start_stream", "stop_stream", "lifespan"}

\* proc.wait(timeout=5)
GRACE_SEC == 5

\* the process has not ended: it encodes, or it is finishing its output after
\* a SIGTERM
Alive(state) == state \in {"running", "stopping"}

\* an unresponsive process that is given up
LeftRunning(state) == state

\* proc.kill(): SIGKILL ends a process that has not ended, and is not sent to
\* one that has
Killed(state) == IF Alive(state) THEN "killed" ELSE state

\* the handle of a registry entry: ffmpeg runs, or has ended by itself already
InitTerminate ==
    /\ active_processes = <<>> /\ proc = [s \in Sessions |-> "none"] /\ dirs = {} /\ first = {}
    /\ thread = [s \in Sessions |-> NoThread] /\ nsess = 0 /\ loop = IdleLoop /\ stop = IdleStop
    /\ sweep = [pc |-> "up", todo |-> <<>>] /\ wfr = [pc |-> "off"]
    /\ \E site \in TerminationSites, state \in {"running", "finished"} :
          fn = [pc |-> "call", site |-> site, process |-> state, sigterm |-> FALSE, sigkill |-> FALSE, waited |-> 0]

TerminateRest == UNCHANGED <<active_processes, proc, dirs, first, thread, nsess, loop, stop, sweep, wfr>>

\* proc.terminate(), main.py:954, 1094, 586: SIGTERM to a process that runs
TM_Terminate ==
    /\ fn.pc = "call"
    /\ fn' = [fn EXCEPT !.pc = "wait", !.sigterm = (fn.process = "running")]
    /\ TerminateRest

\* ffmpeg takes the SIGTERM it has got and starts to finish its output
PR_Handles ==
    /\ fn.process = "running" /\ fn.sigterm /\ fn.pc # "done"
    /\ fn' = [fn EXCEPT !.process = "stopping"]
    /\ TerminateRest

\* ffmpeg ends: by itself at the end of its input, or after the SIGTERM
PR_Ends ==
    /\ Alive(fn.process) /\ fn.pc # "done"
    /\ fn' = [fn EXCEPT !.process = IF fn.process = "stopping" THEN "terminated" ELSE "finished"]
    /\ TerminateRest

\* a second of proc.wait(timeout=5) goes by with the process not ended
TM_Second ==
    /\ fn.pc = "wait" /\ Alive(fn.process) /\ fn.waited < GRACE_SEC
    /\ fn' = [fn EXCEPT !.waited = @ + 1]
    /\ TerminateRest

\* proc.wait returns: the process has ended
TM_Waited ==
    /\ fn.pc = "wait" /\ ~Alive(fn.process)
    /\ fn' = [fn EXCEPT !.pc = "done"]
    /\ TerminateRest

\* proc.wait raises TimeoutExpired, main.py:957, 1097, 589
TM_TimeoutExpired ==
    /\ fn.pc = "wait" /\ Alive(fn.process) /\ fn.waited = GRACE_SEC
    /\ fn' = [fn EXCEPT !.pc = "kill"]
    /\ TerminateRest

\* proc.kill(), main.py:958, 1098, 590
TM_Kill ==
    /\ fn.pc = "kill"
    /\ fn' = [fn EXCEPT !.pc = "done", !.process = Killed(fn.process), !.sigkill = Alive(fn.process)]
    /\ TerminateRest

NextTerminate == TM_Terminate \/ PR_Handles \/ PR_Ends \/ TM_Second \/ TM_Waited \/ TM_TimeoutExpired \/ TM_Kill

\* the handler runs on, and the clock of the wait advances
SpecTerminate == InitTerminate /\ [][NextTerminate]_vars /\ WF_vars(TM_Terminate \/ TM_Second \/ TM_Waited \/ TM_TimeoutExpired \/ TM_Kill)

(***************************************************************************)
(* Properties of a termination (under SpecTerminate).                      *)
(***************************************************************************)
\* C20: at each of the three places that terminate an encoder (preemption in
\* start_stream, stop_stream, the shutdown sweep) the process first gets the
\* graceful terminate, is waited for at most 5 seconds and, if it still runs
\* then, is killed; the sequence always completes, and when it has completed
\* the process does not run.
C20_TerminateWaitKill ==
    /\ <>(fn.pc = "done")
    /\ [](fn.waited <= 5)
    /\ [](fn.sigkill => (fn.sigterm /\ fn.waited = 5))
    /\ []((fn.pc \in {"kill", "done"} /\ fn.process \in {"running", "stopping", "killed"}) => (fn.sigterm /\ fn.waited = 5))
    /\ [](fn.pc = "done" => fn.process \notin {"running", "stopping"})

\* stop_stream kills an ffmpeg that ran through the five seconds
C20_Witness ==
    /\ fn.pc = "done" /\ fn.site = "stop_stream" /\ fn.process = "killed"
    /\ fn.sigterm /\ fn.sigkill /\ fn.waited = 5

(***************************************************************************)
(* Properties of the encoder thread (under Spec).                          *)
(***************************************************************************)
\* the registry has an entry that points at the directory of session s
Registered(reg, s) == \E i \in 1..Len(reg) : reg[i].dir = s

\* C21: when the encoder of a session has ended (exit code zero or not) or
\* could not be launched, the cleanup of its thread leaves the registry
\* without an entry of that session and does not touch the output directory
\* or the segments in it; a session whose encoder has ended or never ran gets
\* no further segment, so a wait for one finds no file until its timeout.
C21_EndedEncoderLeavesDirectory ==
    /\ [](\A s \in Sessions : thread[s].pc = "done" => ~Registered(active_processes, s))
    /\ [][\A s \in Sessions :
            /\ (thread[s].pc = "finally" /\ thread'[s].pc = "done") => (dirs' = dirs /\ first' = first /\ proc' = proc)
            /\ (proc[s] = "exited" \/ thread[s].pc \in {"finally", "done"}) => ((s \in first') = (s \in first) \/ s \notin first')]_vars

\* ffmpeg wrote its first segment and ended by itself: the thread is done, no
\* entry is left, the directory and the segment are on disk
C21_Witness ==
    /\ thread[1].pc = "done" /\ proc[1] = "exited" /\ 1 \in dirs /\ 1 \in first
    /\ active_processes = <<>> /\ loop.pc = "idle" /\ stop.pc = "idle"

\* C25: the cleanup of an encoder thread that finishes removes from the
\* registry only the entry of its own session: under every interleaving an
\* entry that a later request registered for the same asset stays, so no
\* running encoder loses its entry by it.
C25_CleanupRemovesOnlyOwnEntry ==
    [][\A s \in Sessions : (thread[s].pc = "finally" /\ thread'[s].pc = "done") =>
            \A t \in Sessions \ {s} : Registered(active_processes, t) => Registered(active_processes', t)]_vars

(***************************************************************************)
(* Further properties of start_stream (under Spec).                        *)
(***************************************************************************)
\* C27: a GET /stream request that is answered with an error (404 for the
\* item or the subtitle, 400 for the quality or the scale) or with mode direct
\* has left a session the asset already had as it was: it has popped no
\* registry entry, so terminated no encoder and removed no directory.
C27_RejectedRequestTouchesNothing ==
    (loop.pc = "return" /\ (loop.resp.status \in {400, 404} \/ loop.resp.mode = "direct")) => loop.proc_info = NoInfo

(***************************************************************************)
(* Assets and registry keys: an asset is a movie or an episode, each table *)
(* with ids of its own, and the registry is keyed by the id alone.  The    *)
(* requests come one after the other here, each handler run to its end     *)
(* and each encoder thread past its line 484.                              *)
(***************************************************************************)
ItemTypes == {"movie", "episode"}

NoAsset == [item_type |-> "none", id |-> 0]

InitAssets ==
    /\ active_processes = <<>> /\ proc = [s \in Sessions |-> "none"] /\ dirs = {} /\ first = {}
    /\ thread = [s \in Sessions |-> NoThread] /\ nsess = 0 /\ loop = IdleLoop /\ stop = IdleStop
    /\ sweep = [pc |-> "up", todo |-> <<>>] /\ wfr = [pc |-> "off"]
    /\ fn = [pc |-> "assets", owner |-> [s \in Sessions |-> NoAsset]]

AssetsRest == UNCHANGED <<first, thread, loop, stop, sweep, wfr>>

\* GET /stream/{movie_id}?item_type=..., a transcode: main.py:949-968 on the
\* key movie_id, the item looked up in the table of item_type (970-975), the
\* new session (1042-1062) and the thread's registration of its ffmpeg (483-484)
AS_Start(item_type, id) ==
    /\ nsess < MaxSessions
    /\ LET old == IF HasKey(active_processes, id) THEN Item(active_processes, id) ELSE NoInfo
           sid == nsess + 1
       IN  /\ proc' = [(IF old.process # None THEN Terminated(old.process) ELSE proc) EXCEPT ![sid] = "running"]
           /\ dirs' = (dirs \ {old.dir}) \cup {sid}
           /\ active_processes' = Put(Without(active_processes, id), id, sid, sid)
           /\ nsess' = sid
           /\ fn' = [fn EXCEPT !.owner[sid] = [item_type |-> item_type, id |-> id]]
    /\ AssetsRest

\* DELETE /stream/{movie_id} sent for an asset: stop_stream has the id only,
\* main.py:1085-1108
AS_Stop(item_type, id) ==
    /\ HasKey(active_processes, id)
    /\ LET old == Item(active_processes, id)
       IN  /\ proc' = IF old.process # None THEN Terminated(old.process) ELSE proc
           /\ dirs' = dirs \ {old.dir}
           /\ active_processes' = Without(active_processes, id)
    /\ UNCHANGED <<nsess, fn>> /\ AssetsRest

\* ffmpeg ends by itself and its thread cleans up, main.py:487-508
AS_Exit(s) ==
    /\ proc[s] = "running"
    /\ proc' = [proc EXCEPT ![s] = "exited"]
    /\ active_processes' = Without(active_processes, fn.owner[s].id)
    /\ UNCHANGED <<dirs, nsess, fn>> /\ AssetsRest

NextAssets ==
    \/ \E item_type \in ItemTypes, id \in MovieIds : AS_Start(item_type, id)
    \/ \E item_type \in ItemTypes, id \in MovieIds : AS_Stop(item_type, id)
    \/ \E s \in Sessions : AS_Exit(s)

SpecAssets == InitAssets /\ [][NextAssets]_vars

(***************************************************************************)
(* Properties of the assets (under SpecAssets).                            *)
(***************************************************************************)
\* C26: a stream request or a stop request for one asset never terminates the
\* encoder, removes the registry entry or deletes the output directory of a
\* session of another asset, also when the two are a movie and an episode
\* with the same id.
C26_OtherAssetsUntouched ==
    [][\A item_type \in ItemTypes, id \in MovieIds :
            (AS_Start(item_type, id) \/ AS_Stop(item_type, id)) =>
                \A s \in Sessions : (fn.owner[s] # NoAsset /\ fn.owner[s] # [item_type |-> item_type, id |-> id]) =>
                    /\ proc'[s] = proc[s]
                    /\ (s \in dirs) = (s \in dirs')
                    /\ Registered(active_processes, s) => Registered(active_processes', s)]_vars

(***************************************************************************)
(* check_hwaccel at startup, and the encoder run_ffmpeg_sync takes from it. *)
(***************************************************************************)
\* HWACCEL_MODE after .lower(): the four values the code knows and one it does not
HwModes == {"auto", "nvenc", "qsv", "none", "vaapi"}

\* how a test encode ends: exit 0, CalledProcessError or no ffmpeg, the 10 s timeout
TestOutcomes == {"ok", "fails", "timeout"}

\* what the host answers to the steps of check_hwaccel: whether `ffmpeg
\* -encoders` runs and which encoders it prints, whether /dev/dri has a
\* renderD node, how the test encode of each backend ends when it is run
HwEnvs ==
    [mode : HwModes, encoders_ok : BOOLEAN, nvenc_listed : BOOLEAN, qsv_listed : BOOLEAN, render_node : BOOLEAN, nvenc_test : TestOutcomes, qsv_test : TestOutcomes]

\* a detector that takes a listed encoder as a working one
check_hwaccel_listed(env) ==
    IF env.mode = "none" THEN "none"
    ELSE IF env.mode \in {"auto", "nvenc"} /\ env.encoders_ok /\ env.nvenc_listed THEN "nvenc"
    ELSE IF env.mode \in {"auto", "qsv"} /\ env.render_node /\ env.encoders_ok /\ env.qsv_listed THEN "qsv"
    ELSE "none"

\* main.py:53-93, the value it leaves in HWACCEL_AVAILABLE
check_hwaccel(env) ==
    IF env.mode = "none" THEN "none"
    ELSE IF env.mode \in {"auto", "nvenc"} /\ env.encoders_ok /\ env.nvenc_listed /\ env.nvenc_test = "ok" THEN "nvenc"
    ELSE IF env.mode \in {"auto", "qsv"} /\ env.render_node /\ env.encoders_ok /\ env.qsv_listed /\ env.qsv_test = "ok" THEN "qsv"
    ELSE "none"

\* main.py:417-446, the -c:v of the ffmpeg command
VideoEncoder(hw) == IF hw = "nvenc" THEN "h264_nvenc" ELSE IF hw = "qsv" THEN "h264_qsv" ELSE "libx264"

\* the module is loaded: HWACCEL_AVAILABLE = "none", main.py:51
InitHw ==
    /\ active_processes = <<>> /\ proc = [s \in Sessions |-> "none"] /\ dirs = {} /\ first = {}
    /\ thread = [s \in Sessions |-> NoThread] /\ nsess = 0 /\ loop = IdleLoop /\ stop = IdleStop
    /\ sweep = [pc |-> "up", todo |-> <<>>] /\ wfr = [pc |-> "off"]
    /\ \E env \in HwEnvs : fn = [pc |-> "startup", env |-> env, HWACCEL_AVAILABLE |-> "none", encoder |-> "none"]

HwRest == UNCHANGED <<active_processes, proc, dirs, first, thread, nsess, loop, stop, sweep, wfr>>

\* lifespan, main.py:533
HW_Check ==
    /\ fn.pc = "startup"
    /\ fn' = [fn EXCEPT !.pc = "serving", !.HWACCEL_AVAILABLE = check_hwaccel(fn.env)]
    /\ HwRest

\* a transcode request: run_ffmpeg_sync reads HWACCEL_AVAILABLE, main.py:417-446
HW_Request ==
    /\ fn.pc = "serving"
    /\ fn' = [fn EXCEPT !.encoder = VideoEncoder(fn.HWACCEL_AVAILABLE)]
    /\ HwRest

NextHw == HW_Check \/ HW_Request

SpecHw == InitHw /\ [][NextHw]_vars

(***************************************************************************)
(* Properties of the hardware detection (under SpecHw).                    *)
(***************************************************************************)
\* the mode lets the backend be tried
Permits(mode, backend) == mode \in {"auto", backend}

\* C22 as stated: HWACCEL_AVAILABLE is the first of NVENC, QSV that the mode
\* permits, that ffmpeg lists and whose test encode succeeds, "none" when
\* there is none or the mode is "none", and no request changes it.
C22_FirstListedWorkingBackend ==
    fn.pc = "serving" =>
        LET e == fn.env
            nvenc == Permits(e.mode, "nvenc") /\ e.encoders_ok /\ e.nvenc_listed /\ e.nvenc_test = "ok"
            qsv == Permits(e.mode, "qsv") /\ e.encoders_ok /\ e.qsv_listed /\ e.qsv_test = "ok"
        IN  fn.HWACCEL_AVAILABLE = IF nvenc THEN "nvenc" ELSE IF qsv THEN "qsv" ELSE "none"

\* C22: HWACCEL_AVAILABLE is the first of NVENC, QSV that the mode permits,
\* that ffmpeg lists and whose test encode succeeds, where QSV is tried only
\* on a host with a renderD node in /dev/dri; a candidate that fails leaves
\* the next one to be tried; "none" when there is none or the mode is "none";
\* and no request changes the value after startup.
C22_FirstWorkingBackendWithDevice ==
    fn.pc = "serving" =>
        LET e == fn.env
            nvenc == Permits(e.mode, "nvenc") /\ e.encoders_ok /\ e.nvenc_listed /\ e.nvenc_test = "ok"
            qsv == Permits(e.mode, "qsv") /\ e.render_node /\ e.encoders_ok /\ e.qsv_listed /\ e.qsv_test = "ok"
        IN  /\ fn.HWACCEL_AVAILABLE = IF nvenc THEN "nvenc" ELSE IF qsv THEN "qsv" ELSE "none"
            /\ fn.encoder \in {"none", VideoEncoder(fn.HWACCEL_AVAILABLE)}

\* NVENC is listed and its test encode times out: QSV is taken, and requests use it
C22_Witness ==
    /\ fn.pc = "serving" /\ fn.env.mode = "auto" /\ fn.env.encoders_ok /\ fn.env.nvenc_listed
    /\ fn.env.nvenc_test = "timeout" /\ fn.env.render_node /\ fn.env.qsv_listed /\ fn.env.qsv_test = "ok"
    /\ fn.HWACCEL_AVAILABLE = "qsv" /\ fn.encoder = "h264_qsv"

(***************************************************************************)
(* The seek offset: the segment number start_stream computes and the input *)
(* offset run_ffmpeg_sync gives the encoder.                               *)
(***************************************************************************)
\* main.py:369-372: -ss is passed only for a seek_time above one second
seek_args(seek_time) == IF seek_time > 1 THEN <<"-ss", seek_time>> ELSE <<>>

\* the media time at which ffmpeg starts reading: the value of -ss placed
\* before -i, the start of the file without it
InputOffset(args) == IF args = <<>> THEN 0 ELSE args[2]

\* the media time at which the segment numbered k starts: the output clock
\* starts at zero at the input offset, a key frame is forced and a segment
\* cut every SEGMENT_DURATION_SEC of it, and the first segment gets the
\* number -segment_start_number (main.py:450-465)
EmittedStart(k, args, segment_start_number) == InputOffset(args) + (k - segment_start_number) * SEGMENT_DURATION_SEC

InitSeek ==
    /\ active_processes = <<>> /\ proc = [s \in Sessions |-> "none"] /\ dirs = {} /\ first = {}
    /\ thread = [s \in Sessions |-> NoThread] /\ nsess = 0 /\ loop = IdleLoop /\ stop = IdleStop
    /\ sweep = [pc |-> "up", todo |-> <<>>] /\ wfr = [pc |-> "off"]
    /\ \E seek_time \in 0..MaxSeek, duration \in 0..MaxDuration, token \in Tokens :
          fn = [pc |-> "request", seek_time |-> seek_time, duration |-> duration, token |-> token, start_segment_number |-> 0, manifest |-> <<>>, seek_args |-> <<>>, segment_start_number |-> 0]

SeekRest == UNCHANGED <<active_processes, proc, dirs, first, thread, nsess, loop, stop, sweep, wfr>>

\* start_stream, main.py:1048-1057: the segment number and the manifest
SK_StartStream ==
    /\ fn.pc = "request"
    /\ fn' = [fn EXCEPT !.pc = "started", !.start_segment_number = StartSegmentNumber(fn.seek_time), !.manifest = StreamManifest(fn.seek_time, fn.duration, fn.token)]
    /\ SeekRest

\* run_ffmpeg_sync, main.py:369-372 and 450-465: the command of the encoder
SK_RunFfmpeg ==
    /\ fn.pc = "started"
    /\ fn' = [fn EXCEPT !.pc = "encoding", !.seek_args = seek_args(fn.seek_time), !.segment_start_number = fn.start_segment_number]
    /\ SeekRest

NextSeek == SK_StartStream \/ SK_RunFfmpeg

SpecSeek == InitSeek /\ [][NextSeek]_vars

(***************************************************************************)
(* Properties of the seek offset (under SpecSeek).                         *)
(***************************************************************************)
\* C24: for every requested seek_time the encoder is told to number its first
\* segment floor(seek_time / SEGMENT_DURATION_SEC), and the manifest has a
\* segment with that index whose interval contains seek_time.
C24_FirstSegmentContainsSeek ==
    fn.pc = "encoding" =>
        /\ fn.segment_start_number = fn.seek_time \div SEGMENT_DURATION_SEC
        /\ \E k \in 1..Len(fn.manifest) :
              /\ fn.manifest[k].index = fn.segment_start_number
              /\ fn.manifest[k].index * SEGMENT_DURATION_SEC <= fn.seek_time
              /\ fn.seek_time < fn.manifest[k].index * SEGMENT_DURATION_SEC + fn.manifest[k].extinf

\* C29: for every seek_time (here: every one inside the asset) the encoder
\* starts reading at media time start_segment_number * SEGMENT_DURATION_SEC,
\* so that every emitted segment numbered k starts at
\* k * SEGMENT_DURATION_SEC, where the manifest puts stream k.
C29_EncoderStartsAtSegmentBoundary ==
    (fn.pc = "encoding" /\ fn.seek_time < fn.duration) =>
        /\ InputOffset(fn.seek_args) = fn.start_segment_number * SEGMENT_DURATION_SEC
        /\ \A k \in 1..Len(fn.manifest) : fn.manifest[k].index >= fn.segment_start_number =>
              EmittedStart(fn.manifest[k].index, fn.seek_args, fn.segment_start_number) = fn.manifest[k].index * SEGMENT_DURATION_SEC

(***************************************************************************)
(* The audio arguments of run_ffmpeg_sync.                                 *)
(***************************************************************************)
\* most channels ffprobe reports for the audio stream of a file under check
MaxChannels == 8

\* the runs of ffprobe on the files run_ffmpeg_sync is given: an audio stream
\* has one channel or more, or no channels key (None)
EncoderProbeRuns ==
    [outcome : {"ok"}, v : VideoCodecs, a : AudioCodecs, channels : (1..MaxChannels) \cup {None}]
        \cup [outcome : ProbeOutcomes \ {"ok"}, v : {Absent}, a : {Absent}, channels : {None}]

\* -c:a copy
AudioCopy == [c_a |-> "copy", b_a |-> None, ac |-> None]

\* audio arguments that copy every AAC stream, whatever its channels
audio_args_any_aac(codecs) ==
    IF codecs.a = "aac" THEN AudioCopy
    ELSE LET target_channels == Min(IF codecs.channels = 0 THEN 2 ELSE codecs.channels, 6)
         IN  [c_a |-> "aac", b_a |-> 128 * (target_channels \div 2), ac |-> target_channels]

\* main.py:365-387: -c:a, -b:a (in k) and -ac for the probed codecs; a missing
\* channels key reads as 2, and `audio_channels or 2` turns 0 into 2
audio_args(codecs) ==
    IF codecs.a = "aac" /\ codecs.channels <= 2 THEN AudioCopy
    ELSE LET target_channels == Min(IF codecs.channels = 0 THEN 2 ELSE codecs.channels, 6)
         IN  [c_a |-> "aac", b_a |-> 128 * (target_channels \div 2), ac |-> target_channels]

InitAudio ==
    /\ active_processes = <<>> /\ proc = [s \in Sessions |-> "none"] /\ dirs = {} /\ first = {}
    /\ thread = [s \in Sessions |-> NoThread] /\ nsess = 0 /\ loop = IdleLoop /\ stop = IdleStop
    /\ sweep = [pc |-> "up", todo |-> <<>>] /\ wfr = [pc |-> "off"]
    /\ \E run \in EncoderProbeRuns : fn = [pc |-> "in", run |-> run, codecs |-> EmptyCodecs, audio_args |-> AudioCopy]

\* run_ffmpeg_sync, main.py:363-387
AU_AudioArgs ==
    /\ fn.pc = "in"
    /\ fn' = [fn EXCEPT !.pc = "out", !.codecs = probe_media_file(fn.run), !.audio_args = audio_args(probe_media_file(fn.run))]
    /\ UNCHANGED <<active_processes, proc, dirs, first, thread, nsess, loop, stop, sweep, wfr>>

NextAudio == AU_AudioArgs

SpecAudio == InitAudio /\ [][NextAudio]_vars

(***************************************************************************)
(* Properties of the audio arguments (under SpecAudio).                    *)
(***************************************************************************)
\* C23: the audio stream is copied if and only if the probed audio codec is
\* aac with at most 2 channels; in every other case (another codec, more
\* channels, a failed probe) it is re-encoded to aac with at most 6 channels,
\* the probed count where that is between 1 and 6, and a bitrate of 128k for
\* every pair of the channels that are passed.
C23_CopyIffAacStereo ==
    fn.pc = "out" =>
        /\ (fn.audio_args.c_a = "copy") = (fn.codecs.a = "aac" /\ fn.codecs.channels <= 2)
        /\ fn.audio_args.c_a # "copy" =>
              /\ fn.audio_args.c_a = "aac"
              /\ fn.audio_args.ac <= 6
              /\ fn.codecs.channels \in 1..6 => fn.audio_args.ac = fn.codecs.channels
              /\ fn.codecs.channels > 6 => fn.audio_args.ac = 6
              /\ fn.run.outcome # "ok" => fn.audio_args.ac = 2
              /\ fn.audio_args.b_a = 128 * (fn.audio_args.ac \div 2)

\* an eight-channel AAC stream is re-encoded down to six channels at 384k
C23_Witness ==
    /\ fn.pc = "out" /\ fn.run.outcome = "ok" /\ fn.run.a = "aac" /\ fn.run.channels = 8
    /\ fn.audio_args = [c_a |-> "aac", b_a |-> 384, ac |-> 6]

\* C28: whenever the audio is re-encoded from a source of at least one
\* channel, the bitrate passed is at least 128k and the channel count passed
\* is between 1 and 6.
C28_ReencodeBitrateAtLeast128k ==
    (fn.pc = "out" /\ fn.audio_args.c_a = "aac" /\ fn.codecs.channels >= 1) =>
        /\ fn.audio_args.b_a >= 128
        /\ fn.audio_args.ac \in 1..6

(***************************************************************************)
(* The minimum size of a ready segment (under SpecWait).                   *)
(***************************************************************************)
\* C30: wait_for_ready reports "ready" only for a file of at least
\* MIN_SEG_BYTES (32 KiB).  A request whose polls keep finding the file
\* below that size, also when the size no longer changes, is never answered
\* from a "ready": it is answered, and the answer is the 404 of the timeout,
\* after more than SEG_TIMEOUT_SEC.
C30_SmallSegmentNeverReady ==
    /\ [](wfr.ended = "ready" => (wfr.cur.exists /\ wfr.cur.size >= MIN_SEG_BYTES))
    /\ []((wfr.pc \in {"ended", "responded"} /\ wfr.cur.exists /\ wfr.cur.size < MIN_SEG_BYTES) =>
            (wfr.ended = "timeout" /\ wfr.elapsed > TimeoutTicks))
    /\ []((wfr.pc = "responded" /\ wfr.cur.exists /\ wfr.cur.size < MIN_SEG_BYTES) => wfr.status = 404)
    /\ <>(wfr.pc = "responded")

\* a file that stays one byte short of the minimum, unchanged over the last
\* two polls: 404 after the timeout
C30_Witness ==
    /\ wfr.pc = "responded" /\ wfr.ended = "timeout" /\ wfr.status = 404 /\ wfr.elapsed > TimeoutTicks
    /\ wfr.prev.exists /\ wfr.prev.size = MIN_SEG_BYTES - 1 /\ wfr.cur.exists /\ wfr.cur.size = MIN_SEG_BYTES - 1
    /\ wfr.stable_count = 0

====
